---- MODULE Spec2Model ----
(***************************************************************************)
(* Model of the bingo card generator and manager of generate.py and of the  *)
(* card renderer of generate_pdf.py:                                       *)
(*   BingoCardGenerator  (_generate_single_card, _generate_column_         *)
(*                        distribution, _adjust_card_to_five_per_row,      *)
(*                        generate_unique_card, generate_batch)            *)
(*   BingoCardManager    (prepare_cards_for_event, get_card,               *)
(*                        validate_cards_unique)                           *)
(*                                                                         *)
(* The specifications share the variables:                                 *)
(*   SpecCard   one call of _generate_single_card, one step per loop       *)
(*              iteration, every random draw a nondeterministic choice;    *)
(*   Spec       a session of calls on one manager and its generator, one   *)
(*              step per loop iteration of every method;                   *)
(*   SpecCache  a manager whose cards_cache a caller has set, with calls   *)
(*              of validate_cards_unique, get_card, generate_unique_card;  *)
(*   SpecDet    two generators constructed with the same seed that get     *)
(*              the same calls;                                            *)
(*   SpecPrepare  prepare_cards_for_event called with any integer          *)
(*              batch_size, negative and zero included;                    *)
(*   SpecThreads  two threads calling generate_unique_card on one          *)
(*              generator, with and without a lock around the call;        *)
(*   SpecRender BingoPDFGenerator.generate_pdf of generate_pdf.py drawing  *)
(*              the prepared cards with _draw_single_card, cell by cell.   *)
(*                                                                         *)
(* The grid is explored at a reduced size: the source's 9 columns, 5       *)
(* numbers per row and 10 numbers per column range are the definitions     *)
(* NumCols, PerRow and ColWidth below; the 3 rows and the maximum of 3     *)
(* numbers per column are kept.                                            *)
(***************************************************************************)
EXTENDS Integers, Sequences, FiniteSets, TLC

\* ---------------------------------------------------------------- sizes
\* rows of a card: np.zeros((3, 9)), range(3)
NumRows == 3
\* columns of a card (9 in the source)
NumCols == 3
\* numbers every row must hold (5 in the source)
PerRow == 2
\* width of a column's number range (10 in the source)
ColWidth == 3
\* a column holds at most this many numbers: counts[col] < 3
MaxPerCol == 3
\* passes of the repair loop: max_attempts = 100
RepairMaxAttempts == 100
\* candidates of _generate_single_card: max_attempts = 1000
SingleMaxAttempts == 1000

\* retries of generate_unique_card (max_attempts = 10000 in the source)
UniqueMaxAttempts == 2
\* the random source is explored over this many of the grids
\* _generate_single_card can return
NumCandidates == 3
\* top-level calls made on one generator
MaxCalls == 2
\* largest num_cards, total_cards_needed and batch_size a caller passes
MaxBatch == 2

\* numbers on a card (15 in the source)
TotalNumbers == NumRows * PerRow
\* the longest cache a caller supplies
MaxCache == MaxBatch + 1
\* prepare_cards_for_event is followed while remaining is at most this
MaxRemaining == 2 * MaxBatch
\* largest number of the game (90 in the source)
MaxNumber == NumCols * ColWidth

Rows == 0 .. (NumRows - 1)
Cols == 0 .. (NumCols - 1)

Min(a, b) == IF a < b THEN a ELSE b

SetMin(S) == CHOOSE m \in S : \A x \in S : m <= x

\* ------------------------------------------------------ pure operations
\* self.column_ranges[i] = (i*10 + 1, min(i*10 + 10, 90))
column_rangesFromZero(i) == << i * ColWidth, i * ColWidth + ColWidth - 1 >>
column_ranges(i) == << i * ColWidth + 1, Min(i * ColWidth + ColWidth, MaxNumber) >>

\* list(range(start, end + 1))
available_numbers(col) == column_ranges(col)[1] .. column_ranges(col)[2]

\* np.zeros((3, 9), dtype=int)
ZeroCard == [r \in Rows |-> [c \in Cols |-> 0]]

\* counts = [1] * 9
InitialCounts == [c \in Cols |-> 1]

\* remaining = 15 - 9
ExtraNumbers == TotalNumbers - NumCols

\* [i for i in range(9) if counts[i] < 3]
available_cols(counts) == {i \in Cols : counts[i] < MaxPerCol}

\* one iteration of the distribution loop; col is the randint draw, fb the
\* draw of the fallback choice (used only when counts[col] is full)
DistStepDrops(counts, col, fb) ==
    IF counts[col] < MaxPerCol THEN [counts EXCEPT ![col] = @ + 1] ELSE counts
DistStep(counts, col, fb) ==
    IF counts[col] < MaxPerCol
    THEN [counts EXCEPT ![col] = @ + 1]
    ELSE IF available_cols(counts) # {}
         THEN [counts EXCEPT ![fb] = @ + 1]
         ELSE counts

\* the values the fallback draw can take
FallbackDraws(counts, col) ==
    IF counts[col] < MaxPerCol \/ available_cols(counts) = {}
    THEN {col}
    ELSE available_cols(counts)

\* sorted(...) of a sequence of integers: the element of rank i comes i-th
\* (equal elements keep their order)
sorted(s) ==
    LET rank(j) == Cardinality({k \in 1 .. Len(s) :
                       s[k] < s[j] \/ (s[k] = s[j] /\ k < j)}) + 1
    IN  [i \in 1 .. Len(s) |-> s[CHOOSE j \in 1 .. Len(s) : rank(j) = i]]

\* rng.choice(values, k, replace=True): any sequence of k values
ChoiceWithReplacement(values, k) == [1 .. k -> values]

\* rng.choice(values, k, replace=False): k distinct values, in any order
Choice(values, k) ==
    {s \in [1 .. k -> values] : \A i, j \in 1 .. k : i # j => s[i] # s[j]}

\* the draw of the numbers of one column: rng.choice(available_numbers,
\* num_count, replace=False)
NumberDrawsReplace(col, k) == ChoiceWithReplacement(available_numbers(col), k)
NumberDraws(col, k) == Choice(available_numbers(col), k)

\* the draw of the rows of one column: rng.choice(available_rows, num_count,
\* replace=False)
RowDraws(k) == Choice(Rows, k)

\* for i, row in enumerate(selected_rows): card[row, col] = selected_numbers[i]
\* with both draws sorted first
FillColumnUnsorted(grid, col, numberDraw, rowDraw) ==
    LET selected_rows == sorted(rowDraw)
        place(r) == CHOOSE i \in 1 .. Len(selected_rows) : selected_rows[i] = r
        used == {selected_rows[i] : i \in 1 .. Len(selected_rows)}
    IN  [r \in Rows |->
            [c \in Cols |->
                IF c = col /\ r \in used
                THEN numberDraw[place(r)]
                ELSE grid[r][c]]]
FillColumn(grid, col, numberDraw, rowDraw) ==
    LET selected_numbers == sorted(numberDraw)
        selected_rows == sorted(rowDraw)
        place(r) == CHOOSE i \in 1 .. Len(selected_rows) : selected_rows[i] = r
        used == {selected_rows[i] : i \in 1 .. Len(selected_rows)}
    IN  [r \in Rows |->
            [c \in Cols |->
                IF c = col /\ r \in used
                THEN selected_numbers[place(r)]
                ELSE grid[r][c]]]

\* np.sum(card != 0, axis=1)
row_counts(grid) == [r \in Rows |-> Cardinality({c \in Cols : grid[r][c] # 0})]

\* np.all(row_counts == 5)
AllFiveAny(grid) == \E r \in Rows : row_counts(grid)[r] = PerRow
AllFiveAlways(grid) == TRUE
AllFive(grid) == \A r \in Rows : row_counts(grid)[r] = PerRow

\* np.where(row_counts > 5)[0] and np.where(row_counts < 5)[0]
excess_rowsOrFull(grid) == {r \in Rows : row_counts(grid)[r] >= PerRow}
excess_rows(grid) == {r \in Rows : row_counts(grid)[r] > PerRow}
deficit_rows(grid) == {r \in Rows : row_counts(grid)[r] < PerRow}

\* the inner for loop of the repair pass: the first column where the excess
\* row holds a number and the deficit row is blank gets the number moved
MovableColsInverted(grid, excess_row, deficit_row) ==
    {c \in Cols : grid[excess_row][c] = 0 /\ grid[deficit_row][c] # 0}
MovableColsOverwrite(grid, excess_row, deficit_row) ==
    {c \in Cols : grid[excess_row][c] # 0}
MovableCols(grid, excess_row, deficit_row) ==
    {c \in Cols : grid[excess_row][c] # 0 /\ grid[deficit_row][c] = 0}

AdjustMoveLose(grid, excess_row, deficit_row) ==
    LET cands == MovableCols(grid, excess_row, deficit_row)
    IN  IF cands = {} THEN grid
        ELSE [grid EXCEPT ![excess_row][SetMin(cands)] = 0]
AdjustMove(grid, excess_row, deficit_row) ==
    LET cands == MovableCols(grid, excess_row, deficit_row)
    IN  IF cands = {} THEN grid
        ELSE LET col == SetMin(cands)
             IN  [grid EXCEPT ![deficit_row][col] = grid[excess_row][col],
                              ![excess_row][col] = 0]

\* ------------------------------- _generate_single_card as one operation
\* the counts _generate_column_distribution can hold after n increments
DistOutcomes[n \in 0 .. ExtraNumbers] ==
    IF n = 0 THEN {InitialCounts}
    ELSE UNION { UNION { { DistStep(counts, col, fb) :
                           fb \in FallbackDraws(counts, col) } : col \in Cols } :
                 counts \in DistOutcomes[n - 1] }

\* the sorted draws of a column holding k numbers, numbers then rows
SortedDraws(col, k) ==
    { sorted(numberDraw) : numberDraw \in NumberDraws(col, k) }
    \X { sorted(rowDraw) : rowDraw \in RowDraws(k) }

\* one of the counts _generate_column_distribution can return
PoolCounts == CHOOSE counts \in DistOutcomes[ExtraNumbers] : TRUE

\* the grids the column fill can hold for these counts once columns
\* 0 .. col-1 are filled
FillOutcomes[col \in 0 .. NumCols] ==
    IF col = 0 THEN { ZeroCard }
    ELSE UNION {
           IF PoolCounts[col - 1] = 0 THEN {grid}
           ELSE { FillColumn(grid, col - 1, draw[1], draw[2]) :
                  draw \in SortedDraws(col - 1, PoolCounts[col - 1]) } :
           grid \in FillOutcomes[col - 1] }

\* the repair loop stops at a grid: all rows at 5, or no excess or no deficit
\* row to pick
AdjustStops(grid) ==
    AllFive(grid) \/ excess_rows(grid) = {} \/ deficit_rows(grid) = {}

\* _adjust_card_to_five_per_row over all its random choices, pass by pass:
\* active are the grids at the head of pass number pass of the loop, done
\* the (returned flag, grid) pairs of the runs that ended before it; a run
\* still active after the last pass gets the final validation
RECURSIVE AdjustRuns(_, _, _)
AdjustRuns(pass, active, done) ==
    IF active = {} THEN done
    ELSE IF pass >= RepairMaxAttempts
    THEN done \cup { [ok |-> AllFive(grid), card |-> grid] : grid \in active }
    ELSE AdjustRuns(pass + 1,
            UNION { UNION { { AdjustMove(grid, e, d) :
                              d \in deficit_rows(grid) } :
                            e \in excess_rows(grid) } :
                    grid \in { x \in active : ~AdjustStops(x) } },
            done \cup { [ok |-> AllFive(grid), card |-> grid] :
                        grid \in { x \in active : AdjustStops(x) } })

\* every (returned flag, grid) a candidate of _generate_single_card with
\* these counts can end with
CandidateResults == AdjustRuns(0, FillOutcomes[NumCols], {})

\* the outcomes of a call of _generate_single_card with these counts: the
\* grid of a candidate whose repair succeeded, or the RuntimeError when
\* candidates can fail
SingleCardOutcomes ==
    { r \in CandidateResults : r.ok }
    \cup (IF \E r \in CandidateResults : ~r.ok
          THEN { [ok |-> FALSE, card |-> ZeroCard] } ELSE {})

\* ------------------------------------------------- generate_unique_card
\* card.tobytes(): the cells in row-major order; the md5 digest of these
\* bytes is taken to be collision free, so the bytes stand for the digest
_card_to_hash(grid) ==
    [i \in 1 .. (NumRows * NumCols) |->
        grid[(i - 1) \div NumCols][(i - 1) % NumCols]]

\* if card_hash not in self.generated_cards
IsNewAlways(card_hash, seen) == TRUE
IsNew(card_hash, seen) == card_hash \notin seen

\* self.generated_cards.add(card_hash)
AddSeenForgets(seen, card_hash) == seen
AddSeenReplaces(seen, card_hash) == {card_hash}
AddSeen(seen, card_hash) == seen \cup {card_hash}

\* ------------------------------------------------------------ variables
VARIABLES
    \* _generate_single_card
    gpc,            \* position: "idle", "dist", "fill", "adjust", "returned", "error"
    attempt,        \* for attempt in range(max_attempts)
    card,           \* the candidate grid
    column_counts,  \* counts of _generate_column_distribution
    dist_left,      \* iterations left of its for loop
    dist_col,       \* col = self.rng.randint(0, 9) of its last iteration
    fill_col,       \* col of the column-fill loop
    adj_attempt,    \* attempt of _adjust_card_to_five_per_row
    adj_ok,         \* what _adjust_card_to_five_per_row returned last
    \* the random source: np.random.RandomState(seed)
    instances,      \* the generators constructed, all with the same seed
    seed_stream,    \* the results of _generate_single_card the seed yields,
                    \* in order, from the first one that some instance has
                    \* still to draw up to the last one drawn by any
    rng_pos,        \* per instance: how many of them its rng has produced
    \* BingoCardGenerator
    generated_cards,\* per instance: self.generated_cards
    stack,          \* per instance: the calls in progress, outermost first
    u_attempt,      \* per instance: attempt of generate_unique_card
    b_num,          \* per instance: num_cards of generate_batch
    b_i,            \* per instance: iterations its for loop has begun
    b_cards,        \* per instance: cards of generate_batch
    \* BingoCardManager
    cards_cache,    \* per instance: self.cards_cache
    p_total,        \* per instance: total_cards_needed of prepare_cards_for_event
    p_batch_size,   \* per instance: batch_size of prepare_cards_for_event
    p_remaining,    \* per instance: remaining of prepare_cards_for_event
    p_all,          \* per instance: all_cards of prepare_cards_for_event
    v_i,            \* per instance: cards validate_cards_unique has passed
    v_hashes,       \* per instance: hashes of validate_cards_unique
    last,           \* per instance: outcome of the last finished top-level call
    \* history
    n_calls,        \* per instance: how many top-level calls were made
    ops,            \* per instance: the top-level calls made, in order, from
                    \* the first one that some instance has still to make
    returned,       \* per instance: the cards generate_unique_card returned
    call_seen,      \* per instance: generated_cards when generate_unique_card began
    call_returned,  \* per instance: returned when generate_unique_card began
    rejected,       \* per instance: candidates that call has rejected
    \* callers sharing the generator of instance 1, one thread each
    serialized,     \* the callers hold a lock around every call
    t_pc,           \* per thread: position in generate_unique_card
    t_attempt,      \* per thread: its attempt
    t_card,         \* per thread: its card, << >> before the first one
    t_calls,        \* per thread: how many calls it has made
    t_last,         \* per thread: how its last call ended: "none", "card", "error"
    t_returned,     \* per thread: the cards its calls returned
    raced,          \* a thread passed the membership test for a card while
                    \* another thread had passed it and not yet inserted
    \* BingoPDFGenerator.generate_pdf and _draw_single_card
    r_pc,           \* position: "idle", "cards", "cell", "done"
    card_index,     \* card_index of generate_pdf
    card_data,      \* card_data: all_cards[card_index].tolist()
    r_i,            \* i of the loop over the rows
    r_j,            \* j of the loop over the displayed columns
    canvas          \* what was drawn: card number, cell and its content

cardVars == << gpc, attempt, card, column_counts, dist_left, dist_col,
               fill_col, adj_attempt, adj_ok >>

sessionVars == << instances, seed_stream, rng_pos, generated_cards, stack,
                  u_attempt, b_num, b_i, b_cards, cards_cache, p_total, p_batch_size,
                  p_remaining, p_all, v_i, v_hashes, last, n_calls, ops,
                  returned, call_seen,
                  call_returned, rejected,
                  serialized, t_pc, t_attempt, t_card, t_calls, t_last,
                  t_returned, raced,
                  r_pc, card_index, card_data, r_i, r_j, canvas >>

vars == << cardVars, sessionVars >>

threadVars == << serialized, t_pc, t_attempt, t_card, t_calls, t_last,
                 t_returned, raced >>

renderVars == << r_pc, card_index, card_data, r_i, r_j, canvas >>

\* the threads that call generate_unique_card on one generator
Threads == {1, 2}

\* the generator instances a program constructs with one seed
Gens == {1, 2}

\* the grids the random source is explored over
Pool[n \in 0 .. NumCandidates] ==
    LET from == { r \in SingleCardOutcomes : r.ok }
    IN  IF n = 0 THEN {}
        ELSE IF from \subseteq Pool[n - 1] THEN Pool[n - 1]
        ELSE Pool[n - 1] \cup { CHOOSE x \in from \ Pool[n - 1] : TRUE }

CandidateOutcomes ==
    Pool[NumCandidates] \cup { r \in SingleCardOutcomes : ~r.ok }

\* self.rng = np.random.RandomState(seed): the rng is the instance's own and
\* its output is a function of the seed and of how much was drawn from it
RngOutcomesShared(g) == CandidateOutcomes
RngOutcomes(g) ==
    IF rng_pos[g] < Len(seed_stream)
    THEN { seed_stream[rng_pos[g] + 1] }
    ELSE CandidateOutcomes

\* the outcome of a top-level call: a card, a list of cards or an exception
NoResult == [kind |-> "none", card |-> ZeroCard, cards |-> << >>]
ErrorResult == [kind |-> "error", card |-> ZeroCard, cards |-> << >>]
CardResult(c) == [kind |-> "card", card |-> c, cards |-> << >>]
CardsResult(cs) == [kind |-> "cards", card |-> ZeroCard, cards |-> cs]
BoolResult(b) ==
    [kind |-> IF b THEN "True" ELSE "False", card |-> ZeroCard, cards |-> << >>]
IndexErrorResult == [kind |-> "IndexError", card |-> ZeroCard, cards |-> << >>]

\* the innermost call in progress
Top(g) == IF stack[g] = << >> THEN "idle" ELSE stack[g][Len(stack[g])]
\* the call that made it
Caller(g) == IF Len(stack[g]) < 2 THEN "idle" ELSE stack[g][Len(stack[g]) - 1]
Pop(st) == SubSeq(st, 1, Len(st) - 1)

\* no thread has called yet
ThreadInit ==
    /\ t_pc = [t \in Threads |-> "idle"]
    /\ t_attempt = [t \in Threads |-> 0]
    /\ t_card = [t \in Threads |-> << >>]
    /\ t_calls = [t \in Threads |-> 0]
    /\ t_last = [t \in Threads |-> "none"]
    /\ t_returned = [t \in Threads |-> << >>]
    /\ raced = FALSE

\* generate_pdf has not been called
RenderInit ==
    /\ r_pc = "idle"
    /\ card_index = 0
    /\ card_data = << >>
    /\ r_i = 0
    /\ r_j = 0
    /\ canvas = {}

GeneratorInit ==
    /\ seed_stream = << >>
    /\ rng_pos = [g \in Gens |-> 0]
    /\ generated_cards = [g \in Gens |-> {}]
    /\ stack = [g \in Gens |-> << >>]
    /\ u_attempt = [g \in Gens |-> 0]
    /\ b_num = [g \in Gens |-> 0]
    /\ b_i = [g \in Gens |-> 0]
    /\ b_cards = [g \in Gens |-> << >>]
    /\ v_i = [g \in Gens |-> 0]
    /\ v_hashes = [g \in Gens |-> {}]
    /\ p_total = [g \in Gens |-> 0]
    /\ p_batch_size = [g \in Gens |-> 0]
    /\ p_remaining = [g \in Gens |-> 0]
    /\ p_all = [g \in Gens |-> << >>]
    /\ last = [g \in Gens |-> NoResult]
    /\ n_calls = [g \in Gens |-> 0]
    /\ ops = [g \in Gens |-> << >>]
    /\ returned = [g \in Gens |-> << >>]
    /\ call_seen = [g \in Gens |-> {}]
    /\ call_returned = [g \in Gens |-> << >>]
    /\ rejected = [g \in Gens |-> << >>]
    /\ ThreadInit
    /\ RenderInit

\* BingoCardManager.__init__: self.cards_cache = []
SessionInit ==
    /\ GeneratorInit
    /\ cards_cache = [g \in Gens |-> << >>]
    /\ serialized = FALSE

\* ------------------------------------------ _generate_single_card, stepwise
CardInit ==
    /\ gpc = "loop"
    /\ attempt = 0
    /\ card = ZeroCard
    /\ column_counts = InitialCounts
    /\ dist_left = 0
    /\ dist_col = 0
    /\ fill_col = 0
    /\ adj_attempt = 0
    /\ adj_ok = FALSE

\* one generator, with its manager
Init == CardInit /\ SessionInit /\ instances = {1}
\* two generators constructed with the same seed
InitDet == CardInit /\ SessionInit /\ instances = Gens

\* head of "for attempt in range(max_attempts)": a fresh grid and fresh
\* counts, or the RuntimeError once the attempts are used up
StartCandidate ==
    /\ gpc = "loop"
    /\ IF attempt < SingleMaxAttempts
       THEN /\ card' = ZeroCard
            /\ column_counts' = InitialCounts
            /\ dist_left' = ExtraNumbers
            /\ gpc' = IF ExtraNumbers = 0 THEN "fill" ELSE "dist"
       ELSE /\ gpc' = "error"
            /\ UNCHANGED << card, column_counts, dist_left >>
    /\ fill_col' = 0
    /\ adj_attempt' = 0
    /\ UNCHANGED << attempt, adj_ok, dist_col >>
    /\ UNCHANGED sessionVars

\* one iteration of "for _ in range(remaining)"
DistributeStep ==
    /\ gpc = "dist"
    /\ \E col \in Cols :
         \E fb \in FallbackDraws(column_counts, col) :
            /\ column_counts' = DistStep(column_counts, col, fb)
            /\ dist_col' = col
    /\ dist_left' = dist_left - 1
    /\ gpc' = IF dist_left = 1 THEN "fill" ELSE "dist"
    /\ UNCHANGED << attempt, card, fill_col, adj_attempt, adj_ok >>
    /\ UNCHANGED sessionVars

\* one iteration of "for col in range(9)"
FillStep ==
    /\ gpc = "fill"
    /\ LET num_count == column_counts[fill_col]
       IN  IF num_count = 0
           THEN card' = card
           ELSE \E numberDraw \in NumberDraws(fill_col, num_count) :
                  \E rowDraw \in RowDraws(num_count) :
                     card' = FillColumn(card, fill_col, numberDraw, rowDraw)
    /\ fill_col' = fill_col + 1
    /\ gpc' = IF fill_col + 1 = NumCols THEN "adjust" ELSE "fill"
    /\ dist_col' = 0
    /\ UNCHANGED << attempt, column_counts, dist_left, adj_attempt, adj_ok >>
    /\ UNCHANGED sessionVars

\* one iteration of the repair loop of _adjust_card_to_five_per_row, and on
\* its return the "if ...: return card" of _generate_single_card
AdjustStep ==
    /\ gpc = "adjust"
    /\ IF adj_attempt < RepairMaxAttempts /\ AllFive(card)
       THEN \* return True
            /\ adj_ok' = TRUE
            /\ gpc' = "returned"
            /\ UNCHANGED << card, adj_attempt, attempt >>
       ELSE IF \/ adj_attempt >= RepairMaxAttempts
               \/ excess_rows(card) = {}
               \/ deficit_rows(card) = {}
       THEN \* loop left: final validation
            /\ adj_ok' = AllFive(card)
            /\ gpc' = IF AllFive(card) THEN "returned" ELSE "loop"
            /\ attempt' = IF AllFive(card) THEN attempt ELSE attempt + 1
            /\ UNCHANGED << card, adj_attempt >>
       ELSE \E excess_row \in excess_rows(card) :
              \E deficit_row \in deficit_rows(card) :
                 /\ card' = AdjustMove(card, excess_row, deficit_row)
                 /\ adj_attempt' = adj_attempt + 1
                 /\ UNCHANGED << gpc, attempt, adj_ok >>
    /\ UNCHANGED << column_counts, dist_left, dist_col, fill_col >>
    /\ UNCHANGED sessionVars

CardNext ==
    \/ StartCandidate
    \/ DistributeStep
    \/ FillStep
    \/ AdjustStep

SpecCard == Init /\ [][CardNext]_vars

\* ----------------------------------------------- the session, stepwise
managerVars == << cards_cache, p_total, p_batch_size, p_remaining, p_all >>

\* current_batch_size = min(batch_size, remaining)
current_batch_sizeWhole(batch_size, remaining) == batch_size
current_batch_size(batch_size, remaining) == Min(batch_size, remaining)
validateVars == << v_i, v_hashes >>
batchVars == << b_num, b_i, b_cards >>

\* "for i in range(n)" has another iteration to run after i of them
InRangeInclusive(i, n) == i <= n
InRange(i, n) == i < n
rngVars == << seed_stream, rng_pos >>
callLog == << n_calls, ops >>

\* a record every instance has at its head is history no instance reads again
SharedHead(logs) ==
    /\ \A g \in instances : logs[g] # << >>
    /\ \A g, h \in instances : Head(logs[g]) = Head(logs[h])
DropShared(logs) ==
    IF SharedHead(logs)
    THEN [g \in Gens |-> IF g \in instances THEN Tail(logs[g]) ELSE logs[g]]
    ELSE logs

\* instance g makes the top-level call op
LogCall(g, op) ==
    /\ n_calls[g] < MaxCalls
    /\ n_calls' = [n_calls EXCEPT ![g] = @ + 1]
    /\ ops' = DropShared([ops EXCEPT ![g] = Append(@, op)])

\* the rng of instance g has produced outcome: the stream holds it until
\* every instance has drawn it
Draw(g, outcome) ==
    LET stream == IF rng_pos[g] < Len(seed_stream)
                  THEN seed_stream
                  ELSE Append(seed_stream, outcome)
        pos == [rng_pos EXCEPT ![g] = @ + 1]
    IN  IF \A h \in instances : pos[h] >= 1
        THEN /\ seed_stream' = Tail(stream)
             /\ rng_pos' = [h \in Gens |-> IF h \in instances
                                            THEN pos[h] - 1 ELSE pos[h]]
        ELSE /\ seed_stream' = stream
             /\ rng_pos' = pos
uniqueHistory == << call_seen, call_returned, rejected >>

\* entry of generate_unique_card: max_attempts = 10000, attempt = 0
EnterUnique(g) ==
    /\ u_attempt' = [u_attempt EXCEPT ![g] = 0]
    /\ call_seen' = [call_seen EXCEPT ![g] = generated_cards[g]]
    /\ call_returned' = [call_returned EXCEPT ![g] = returned[g]]
    /\ rejected' = [rejected EXCEPT ![g] = << >>]

\* a caller calls generate_unique_card
CallUnique(g) ==
    /\ stack[g] = << >>
    /\ LogCall(g, << "generate_unique_card", 0, 0 >>)
    /\ stack' = [stack EXCEPT ![g] = << "unique" >>]
    /\ EnterUnique(g)
    /\ last' = [last EXCEPT ![g] = NoResult]
    /\ UNCHANGED << rngVars, generated_cards, returned, batchVars, managerVars >>
    /\ UNCHANGED << cardVars, instances, validateVars, threadVars, renderVars >>

\* a caller calls generate_batch(num_cards): cards = []
CallBatch(g, num_cards) ==
    /\ stack[g] = << >>
    /\ LogCall(g, << "generate_batch", num_cards, 0 >>)
    /\ stack' = [stack EXCEPT ![g] = << "batch" >>]
    /\ b_num' = [b_num EXCEPT ![g] = num_cards]
    /\ b_i' = [b_i EXCEPT ![g] = 0]
    /\ b_cards' = [b_cards EXCEPT ![g] = << >>]
    /\ last' = [last EXCEPT ![g] = NoResult]
    /\ UNCHANGED << rngVars, generated_cards, returned, u_attempt, uniqueHistory,
                    managerVars >>
    /\ UNCHANGED << cardVars, instances, validateVars, threadVars, renderVars >>

\* a caller calls prepare_cards_for_event(total_cards_needed, batch_size):
\* all_cards = [], remaining = total_cards_needed
CallPrepare(g, total_cards_needed, batch_size) ==
    /\ stack[g] = << >>
    /\ LogCall(g, << "prepare_cards_for_event", total_cards_needed, batch_size >>)
    /\ stack' = [stack EXCEPT ![g] = << "prepare" >>]
    /\ p_total' = [p_total EXCEPT ![g] = total_cards_needed]
    /\ p_batch_size' = [p_batch_size EXCEPT ![g] = batch_size]
    /\ p_remaining' = [p_remaining EXCEPT ![g] = total_cards_needed]
    /\ p_all' = [p_all EXCEPT ![g] = << >>]
    /\ last' = [last EXCEPT ![g] = NoResult]
    /\ UNCHANGED << rngVars, generated_cards, returned, u_attempt, uniqueHistory,
                    batchVars, cards_cache >>
    /\ UNCHANGED << cardVars, instances, validateVars, threadVars, renderVars >>

\* head of "while remaining > 0" of prepare_cards_for_event: the next
\* generate_batch call, or after the loop the cache is set and the list returned
PrepareStep(g) ==
    /\ Top(g) = "prepare"
    /\ p_remaining[g] <= MaxRemaining
    /\ IF p_remaining[g] > 0
       THEN /\ stack' = [stack EXCEPT ![g] = Append(@, "batch")]
            /\ b_num' = [b_num EXCEPT ![g] =
                           current_batch_size(p_batch_size[g], p_remaining[g])]
            /\ b_i' = [b_i EXCEPT ![g] = 0]
            /\ b_cards' = [b_cards EXCEPT ![g] = << >>]
            /\ UNCHANGED << cards_cache, last >>
       ELSE /\ cards_cache' = [cards_cache EXCEPT ![g] = p_all[g]]
            /\ stack' = [stack EXCEPT ![g] = Pop(@)]
            /\ last' = [last EXCEPT ![g] = CardsResult(p_all[g])]
            /\ UNCHANGED batchVars
    /\ UNCHANGED << rngVars, generated_cards, returned, u_attempt, uniqueHistory,
                    p_total, p_batch_size, p_remaining, p_all, callLog >>
    /\ UNCHANGED << cardVars, instances, validateVars, threadVars, renderVars >>

\* head of "for i in range(num_cards)" of generate_batch: the next
\* generate_unique_card call, or after the loop the list is returned; in
\* prepare_cards_for_event the caller extends all_cards and lowers remaining
BatchStep(g) ==
    /\ Top(g) = "batch"
    /\ IF InRange(b_i[g], b_num[g])
       THEN /\ stack' = [stack EXCEPT ![g] = Append(@, "unique")]
            /\ b_i' = [b_i EXCEPT ![g] = @ + 1]
            /\ EnterUnique(g)
            /\ UNCHANGED << last, p_all, p_remaining >>
       ELSE /\ stack' = [stack EXCEPT ![g] = Pop(@)]
            /\ UNCHANGED b_i
            /\ IF Caller(g) = "prepare"
               THEN /\ p_all' = [p_all EXCEPT ![g] = @ \o b_cards[g]]
                    /\ p_remaining' = [p_remaining EXCEPT ![g] = @ - b_num[g]]
                    /\ UNCHANGED last
               ELSE /\ last' = [last EXCEPT ![g] = CardsResult(b_cards[g])]
                    /\ UNCHANGED << p_all, p_remaining >>
            /\ UNCHANGED << u_attempt, uniqueHistory >>
    /\ UNCHANGED << rngVars, generated_cards, returned, b_num, b_cards, cards_cache,
                    p_total, p_batch_size, callLog >>
    /\ UNCHANGED << cardVars, instances, validateVars, threadVars, renderVars >>

\* generate_unique_card returns the card to its caller: to generate_batch,
\* which appends it to cards, or to the top-level caller
ReturnCard(g, c) ==
    /\ stack' = [stack EXCEPT ![g] = Pop(@)]
    /\ returned' = [returned EXCEPT ![g] = Append(@, c)]
    /\ IF Caller(g) = "batch"
       THEN /\ b_cards' = [b_cards EXCEPT ![g] = Append(@, c)]
            /\ UNCHANGED last
       ELSE /\ last' = [last EXCEPT ![g] = CardResult(c)]
            /\ UNCHANGED b_cards

\* a RuntimeError leaves generate_unique_card: no caller catches it
RaiseErrorReturnsPartial(g) ==
    /\ stack' = [stack EXCEPT ![g] = << >>]
    /\ last' = [last EXCEPT ![g] =
                  IF Len(stack[g]) > 1 THEN CardsResult(b_cards[g]) ELSE ErrorResult]
    /\ UNCHANGED << returned, b_cards >>
RaiseError(g) ==
    /\ stack' = [stack EXCEPT ![g] = << >>]
    /\ last' = [last EXCEPT ![g] = ErrorResult]
    /\ UNCHANGED << returned, b_cards >>

\* one iteration of "for attempt in range(max_attempts)"
UniqueAttempt(g) ==
    /\ Top(g) = "unique"
    /\ u_attempt[g] < UniqueMaxAttempts
    /\ \E outcome \in RngOutcomes(g) :
         /\ Draw(g, outcome)
         /\ IF ~outcome.ok
            THEN \* _generate_single_card raised
                 /\ RaiseError(g)
                 /\ UNCHANGED << generated_cards, u_attempt, rejected >>
            ELSE LET card_hash == _card_to_hash(outcome.card)
                 IN  IF IsNew(card_hash, generated_cards[g])
                     THEN /\ generated_cards' =
                               [generated_cards EXCEPT ![g] = AddSeen(@, card_hash)]
                          /\ ReturnCard(g, outcome.card)
                          /\ UNCHANGED << u_attempt, rejected >>
                     ELSE /\ u_attempt' = [u_attempt EXCEPT ![g] = @ + 1]
                          /\ rejected' = [rejected EXCEPT ![g] = Append(@, outcome.card)]
                          /\ UNCHANGED << generated_cards, stack, last, returned,
                                          b_cards >>
    /\ UNCHANGED << callLog, call_seen, call_returned, b_num, b_i, managerVars >>
    /\ UNCHANGED << cardVars, instances, validateVars, threadVars, renderVars >>

\* the loop is used up: raise RuntimeError
UniqueExhaustedReturnsLast(g) ==
    /\ Top(g) = "unique"
    /\ u_attempt[g] >= UniqueMaxAttempts
    /\ ReturnCard(g, rejected[g][Len(rejected[g])])
    /\ UNCHANGED << rngVars, generated_cards, u_attempt, callLog, uniqueHistory,
                    b_num, b_i, managerVars >>
    /\ UNCHANGED << cardVars, instances, validateVars, threadVars, renderVars >>
UniqueExhausted(g) ==
    /\ Top(g) = "unique"
    /\ u_attempt[g] >= UniqueMaxAttempts
    /\ RaiseError(g)
    /\ UNCHANGED << rngVars, generated_cards, u_attempt, callLog, uniqueHistory,
                    b_num, b_i, managerVars >>
    /\ UNCHANGED << cardVars, instances, validateVars, threadVars, renderVars >>

\* a caller calls validate_cards_unique: hashes = set()
CallValidate(g) ==
    /\ stack[g] = << >>
    /\ LogCall(g, << "validate_cards_unique", 0, 0 >>)
    /\ stack' = [stack EXCEPT ![g] = << "validate" >>]
    /\ v_i' = [v_i EXCEPT ![g] = 0]
    /\ v_hashes' = [v_hashes EXCEPT ![g] = {}]
    /\ last' = [last EXCEPT ![g] = NoResult]
    /\ UNCHANGED << rngVars, generated_cards, returned, u_attempt, uniqueHistory,
                    batchVars, managerVars >>
    /\ UNCHANGED << cardVars, instances, threadVars, renderVars >>

\* validate_cards_unique returns seen to its caller
ValidateReturns(g, seen) ==
    /\ stack' = [stack EXCEPT ![g] = Pop(@)]
    /\ last' = [last EXCEPT ![g] = BoolResult(seen)]
    /\ UNCHANGED validateVars

\* the "if card_hash in hashes" of validate_cards_unique
HashSeenNever(card_hash, hashes) == FALSE
HashSeenInPool(card_hash, hashes) ==
    card_hash \in hashes \cup generated_cards[1]
HashSeen(card_hash, hashes) == card_hash \in hashes

\* "if not self.cards_cache: return True", then one iteration of
\* "for card in self.cards_cache", or the return after the loop
ValidateStep(g) ==
    /\ Top(g) = "validate"
    /\ IF cards_cache[g] = << >>
       THEN ValidateReturns(g, TRUE)
       ELSE IF v_i[g] < Len(cards_cache[g])
       THEN LET card_hash == _card_to_hash(cards_cache[g][v_i[g] + 1])
            IN  IF HashSeen(card_hash, v_hashes[g])
                THEN ValidateReturns(g, FALSE)
                ELSE /\ v_hashes' = [v_hashes EXCEPT ![g] = @ \cup {card_hash}]
                     /\ v_i' = [v_i EXCEPT ![g] = @ + 1]
                     /\ UNCHANGED << stack, last >>
       ELSE ValidateReturns(g, TRUE)
    /\ UNCHANGED << rngVars, generated_cards, returned, u_attempt, uniqueHistory,
                    batchVars, managerVars, callLog >>
    /\ UNCHANGED << cardVars, instances, threadVars, renderVars >>

\* the list element cache[index] of Python, indexes counted from 0 and
\* negative ones from the end; IndexError outside
ListItemFromOne(cache, index) ==
    IF 1 <= index /\ index <= Len(cache) THEN CardResult(cache[index])
    ELSE IndexErrorResult
ListItem(cache, index) ==
    IF 0 <= index /\ index < Len(cache) THEN CardResult(cache[index + 1])
    ELSE IF index < 0 /\ Len(cache) + index >= 0
    THEN CardResult(cache[Len(cache) + index + 1])
    ELSE IndexErrorResult

\* the "if index >= len(self.cards_cache)" of get_card
IndexPastEnd(index, cache) == index >= Len(cache)

\* a caller calls get_card(index)
get_card(g, index) ==
    /\ stack[g] = << >>
    /\ LogCall(g, << "get_card", index, 0 >>)
    /\ last' = [last EXCEPT ![g] =
                  IF IndexPastEnd(index, cards_cache[g])
                  THEN IndexErrorResult
                  ELSE ListItem(cards_cache[g], index)]
    /\ UNCHANGED << rngVars, generated_cards, returned, u_attempt, uniqueHistory,
                    batchVars, managerVars, validateVars, stack >>
    /\ UNCHANGED << cardVars, instances, threadVars, renderVars >>

\* the indexes a caller passes to get_card
Indexes == (0 - MaxCache - 1) .. (MaxCache + 1)

\* the calls a caller can make on a BingoCardGenerator
GenCalls(g) ==
    \/ CallUnique(g)
    \/ \E num_cards \in 0 .. MaxBatch : CallBatch(g, num_cards)

\* the calls a caller can make on a BingoCardManager and its generator
Calls(g) ==
    \/ GenCalls(g)
    \/ \E total_cards_needed \in 0 .. MaxBatch :
          \E batch_size \in 1 .. MaxBatch :
             CallPrepare(g, total_cards_needed, batch_size)
    \/ CallValidate(g)
    \/ \E index \in Indexes : get_card(g, index)

\* the steps of the calls in progress on a BingoCardGenerator
GenSteps(g) ==
    \/ BatchStep(g)
    \/ UniqueAttempt(g)
    \/ UniqueExhausted(g)

\* the steps of the calls in progress on a BingoCardManager and its generator
Steps(g) ==
    \/ PrepareStep(g)
    \/ ValidateStep(g)
    \/ GenSteps(g)

\* one manager with its generator, used by one caller
Next == Calls(1) \/ Steps(1)

Spec == Init /\ [][Next]_vars

\* a manager whose cards_cache a caller has set: the attribute is public, and
\* validate_cards_unique and get_card read whatever list it holds
PoolCards == { r.card : r \in Pool[NumCandidates] }
CachesOfLen[n \in 0 .. MaxCache] ==
    IF n = 0 THEN { << >> }
    ELSE { Append(cache, x) : cache \in CachesOfLen[n - 1], x \in PoolCards }
CacheInputs == UNION { CachesOfLen[n] : n \in 0 .. MaxCache }

InitCache ==
    /\ CardInit
    /\ GeneratorInit
    /\ instances = {1}
    /\ serialized = FALSE
    /\ \E cache \in CacheInputs :
          cards_cache = [g \in Gens |-> IF g = 1 THEN cache ELSE << >>]

NextCache ==
    \/ CallUnique(1)
    \/ CallValidate(1)
    \/ \E index \in Indexes : get_card(1, index)
    \/ UniqueAttempt(1)
    \/ UniqueExhausted(1)
    \/ ValidateStep(1)

SpecCache == InitCache /\ [][NextCache]_vars

\* two BingoCardGenerator instances constructed with the same seed and driven
\* by the same sequence of calls by one single-threaded caller: a call is made while no
\* other call is in progress, and instance 2 gets the calls instance 1 has
\* got, in the same order
Replays(g, leader) ==
    /\ ops[g] = << >>
    /\ ops[leader] # << >>
    /\ ops'[leader] = Tail(ops[leader])

NextDet ==
    \/ GenCalls(1) /\ stack[2] = << >>
    \/ GenSteps(1)
    \/ GenCalls(2) /\ stack[1] = << >> /\ Replays(2, 1)
    \/ GenSteps(2)

SpecDet == InitDet /\ [][NextDet]_vars

\* ------------------- prepare_cards_for_event with any integer batch_size
\* the batch sizes a caller passes: negative, zero and positive ones
BatchSizes == (0 - 1) .. MaxBatch

NextPrepare ==
    \/ \E total_cards_needed \in 0 .. MaxBatch :
          \E batch_size \in BatchSizes :
             CallPrepare(1, total_cards_needed, batch_size)
    \/ PrepareStep(1)
    \/ BatchStep(1)
    \/ UniqueAttempt(1)
    \/ UniqueExhausted(1)

SpecPrepare == Init /\ [][NextPrepare]_vars

\* ------------------------------ generate_pdf and _draw_single_card
\* display_cols = 7: the renderer shows the first 7 of the 9 columns; at the
\* size explored here, the first NumCols - 2
display_cols == NumCols - 2

\* all_cards[card_index].tolist(): the rows of the grid as a list of lists
tolist(grid) == [i \in 1 .. NumRows |-> [j \in 1 .. NumCols |-> grid[i - 1][j - 1]]]

\* cell_value = card_data[i][j] if j < len(card_data[i]) else 0
cell_value(data, i, j) == IF j < Len(data[i + 1]) THEN data[i + 1][j + 1] ELSE 0

\* what _draw_single_card draws in cell (i, j) of the card: the number as
\* text, or the logo for a blank (text 0), and the border of the cell
Drawn(card_number, i, j, value) ==
    [card_number |-> card_number, row |-> i, col |-> j, text |-> value]

\* generate_pdf is called with the cards prepare_cards_for_event returned and
\* validate_cards_unique accepted: card_index = 0
CallGeneratePdf ==
    /\ r_pc = "idle"
    /\ r_pc' = "cards"
    /\ card_index' = 0
    /\ canvas' = {}
    /\ UNCHANGED << card_data, r_i, r_j >>
    /\ UNCHANGED << cardVars, threadVars, instances, rngVars, generated_cards,
                    stack, u_attempt, batchVars, managerVars, validateVars,
                    last, callLog, returned, uniqueHistory >>

\* the loops over the pages and the card positions: the next card is handed
\* to _draw_single_card as card_data, or all total_cards cards are drawn
NextCard ==
    /\ r_pc = "cards"
    /\ IF card_index >= Len(cards_cache[1])
       THEN /\ r_pc' = "done"
            /\ UNCHANGED << card_data, r_i, r_j >>
       ELSE /\ card_data' = tolist(cards_cache[1][card_index + 1])
            /\ r_i' = 0
            /\ r_j' = 0
            /\ r_pc' = "cell"
    /\ UNCHANGED << card_index, canvas >>
    /\ UNCHANGED << cardVars, threadVars, instances, rngVars, generated_cards,
                    stack, u_attempt, batchVars, managerVars, validateVars,
                    last, callLog, returned, uniqueHistory >>

\* one iteration of "for j in range(display_cols)" inside
\* "for i in range(rows)" of _draw_single_card; after the last cell
\* generate_pdf does card_index += 1
DrawCell ==
    /\ r_pc = "cell"
    /\ canvas' = canvas \cup
          { Drawn(card_index + 1, r_i, r_j, cell_value(card_data, r_i, r_j)) }
    /\ IF r_j + 1 < display_cols
       THEN /\ r_j' = r_j + 1
            /\ UNCHANGED << r_i, r_pc, card_index >>
       ELSE IF r_i + 1 < Len(card_data)
       THEN /\ r_j' = 0
            /\ r_i' = r_i + 1
            /\ UNCHANGED << r_pc, card_index >>
       ELSE /\ r_pc' = "cards"
            /\ card_index' = card_index + 1
            /\ UNCHANGED << r_i, r_j >>
    /\ UNCHANGED card_data
    /\ UNCHANGED << cardVars, threadVars, instances, rngVars, generated_cards,
                    stack, u_attempt, batchVars, managerVars, validateVars,
                    last, callLog, returned, uniqueHistory >>

\* the lists generate_pdf draws: validate_cards_unique has returned True
InitRender ==
    /\ InitCache
    /\ \A i, j \in 1 .. Len(cards_cache[1]) :
           i # j => cards_cache[1][i] # cards_cache[1][j]

NextRender ==
    \/ CallGeneratePdf
    \/ NextCard
    \/ DrawCell

SpecRender == InitRender /\ [][NextRender]_vars

\* ------------------------- callers on threads sharing one generator
\* generate_unique_card run by thread t on the generator of instance 1, one
\* step per statement that reads or writes self.generated_cards; attempt,
\* card and card_hash are locals of the thread. With serialized the callers
\* hold a lock around the call, so a call begins only when no other is in
\* progress.
OthersIdle(t) == \A u \in Threads \ {t} : t_pc[u] = "idle"

\* thread t calls generate_unique_card: max_attempts = 10000, attempt = 0
ThreadCall(t) ==
    /\ t_pc[t] = "idle"
    /\ t_calls[t] < MaxCalls
    /\ serialized => OthersIdle(t)
    /\ t_calls' = [t_calls EXCEPT ![t] = @ + 1]
    /\ t_pc' = [t_pc EXCEPT ![t] = "loop"]
    /\ t_attempt' = [t_attempt EXCEPT ![t] = 0]
    /\ t_last' = [t_last EXCEPT ![t] = "none"]
    /\ UNCHANGED << serialized, t_card, t_returned, raced >>
    /\ UNCHANGED << cardVars, renderVars, instances, rngVars, generated_cards, stack,
                    u_attempt, batchVars, managerVars, validateVars, last,
                    callLog, returned, uniqueHistory >>

\* head of "for attempt in range(max_attempts)" and
\* card = self._generate_single_card(), or the RuntimeError after the loop
ThreadGenerate(t) ==
    /\ t_pc[t] = "loop"
    /\ IF t_attempt[t] < UniqueMaxAttempts
       THEN \E outcome \in CandidateOutcomes :
              IF outcome.ok
              THEN /\ t_card' = [t_card EXCEPT ![t] = outcome.card]
                   /\ t_pc' = [t_pc EXCEPT ![t] = "test"]
                   /\ UNCHANGED t_last
              ELSE /\ t_pc' = [t_pc EXCEPT ![t] = "idle"]
                   /\ t_last' = [t_last EXCEPT ![t] = "error"]
                   /\ UNCHANGED t_card
       ELSE /\ t_pc' = [t_pc EXCEPT ![t] = "idle"]
            /\ t_last' = [t_last EXCEPT ![t] = "error"]
            /\ UNCHANGED t_card
    /\ UNCHANGED << serialized, t_attempt, t_calls, t_returned, raced >>
    /\ UNCHANGED << cardVars, renderVars, instances, rngVars, generated_cards, stack,
                    u_attempt, batchVars, managerVars, validateVars, last,
                    callLog, returned, uniqueHistory >>

\* another thread has passed the test for the card of t and not yet inserted
InsertPending(t) ==
    \E u \in Threads \ {t} : t_pc[u] = "add" /\ t_card[u] = t_card[t]

\* card_hash = self._card_to_hash(card);
\* if card_hash not in self.generated_cards
ThreadTest(t) ==
    /\ t_pc[t] = "test"
    /\ IF IsNew(_card_to_hash(t_card[t]), generated_cards[1])
       THEN /\ t_pc' = [t_pc EXCEPT ![t] = "add"]
            /\ raced' = (raced \/ InsertPending(t))
            /\ UNCHANGED t_attempt
       ELSE /\ t_pc' = [t_pc EXCEPT ![t] = "loop"]
            /\ t_attempt' = [t_attempt EXCEPT ![t] = @ + 1]
            /\ UNCHANGED raced
    /\ UNCHANGED << serialized, t_card, t_calls, t_last, t_returned >>
    /\ UNCHANGED << cardVars, renderVars, instances, rngVars, generated_cards, stack,
                    u_attempt, batchVars, managerVars, validateVars, last,
                    callLog, returned, uniqueHistory >>

\* self.generated_cards.add(card_hash); return card
ThreadAddForgets(t) ==
    /\ t_pc[t] = "add"
    /\ generated_cards' = generated_cards
    /\ t_pc' = [t_pc EXCEPT ![t] = "idle"]
    /\ t_last' = [t_last EXCEPT ![t] = "card"]
    /\ t_returned' = [t_returned EXCEPT ![t] = Append(@, t_card[t])]
    /\ UNCHANGED << serialized, t_attempt, t_card, t_calls, raced >>
    /\ UNCHANGED << cardVars, renderVars, instances, rngVars, stack,
                    u_attempt, batchVars, managerVars, validateVars, last,
                    callLog, returned, uniqueHistory >>
ThreadAdd(t) ==
    /\ t_pc[t] = "add"
    /\ generated_cards' = [generated_cards EXCEPT
                              ![1] = AddSeen(@, _card_to_hash(t_card[t]))]
    /\ t_pc' = [t_pc EXCEPT ![t] = "idle"]
    /\ t_last' = [t_last EXCEPT ![t] = "card"]
    /\ t_returned' = [t_returned EXCEPT ![t] = Append(@, t_card[t])]
    /\ UNCHANGED << serialized, t_attempt, t_card, t_calls, raced >>
    /\ UNCHANGED << cardVars, renderVars, instances, rngVars, stack,
                    u_attempt, batchVars, managerVars, validateVars, last,
                    callLog, returned, uniqueHistory >>

\* the callers either all hold the lock or none does
InitThreads ==
    /\ CardInit
    /\ GeneratorInit
    /\ cards_cache = [g \in Gens |-> << >>]
    /\ instances = {1}
    /\ serialized \in BOOLEAN

NextThreads ==
    \E t \in Threads :
        \/ ThreadCall(t)
        \/ ThreadGenerate(t)
        \/ ThreadTest(t)
        \/ ThreadAdd(t)

SpecThreads == InitThreads /\ [][NextThreads]_vars


\* ================================================================ claims
\* cells of a grid that hold a number
Numbers(grid) == {p \in Rows \X Cols : grid[p[1]][p[2]] # 0}
NumbersInRow(grid, r) == {c \in Cols : grid[r][c] # 0}
NumbersInCol(grid, c) == {r \in Rows : grid[r][c] # 0}
\* the last generate_unique_card call of instance g has returned a card
UniqueReturned(g) ==
    /\ Top(g) # "unique"
    /\ Len(returned[g]) = Len(call_returned[g]) + 1
LastReturned(g) == returned[g][Len(returned[g])]

\* C1: the cards generate_unique_card has returned in a session, directly or
\* through generate_batch and prepare_cards_for_event, are pairwise different
\* grids with pairwise different fingerprints.
C1_ReturnedCardsDistinct ==
    \A g \in Gens :
        \A i, j \in 1 .. Len(returned[g]) :
            i # j => /\ returned[g][i] # returned[g][j]
                     /\ _card_to_hash(returned[g][i]) # _card_to_hash(returned[g][j])

\* two cards were returned although a candidate repeated an earlier card
C1_Witness ==
    /\ Len(returned[1]) >= 2
    /\ rejected[1] # << >>

\* C2: a grid returned by _generate_single_card has PerRow (5) numbers in each
\* of its rows and NumRows * PerRow (15) numbers in all.
C2_FivePerRow ==
    gpc = "returned" =>
        /\ \A r \in Rows : Cardinality(NumbersInRow(card, r)) = PerRow
        /\ Cardinality(Numbers(card)) = TotalNumbers

\* a grid was returned after the repair pass moved numbers
C2_Witness == gpc = "returned" /\ adj_attempt > 0

C4_NoDuplicateNumbers ==
    gpc = "returned" =>
        \A p, q \in Numbers(card) :
            p # q => card[p[1]][p[2]] # card[q[1]][q[2]]

\* a returned grid with a full column
C4_Witness ==
    /\ gpc = "returned"
    /\ \E c \in Cols : Cardinality(NumbersInCol(card, c)) = NumRows

\* C5: every column of a returned grid holds between one and three numbers,
\* and no step of the repair pass changes how many numbers a column holds.
C5_ColumnCounts ==
    /\ [](gpc = "returned" =>
            \A c \in Cols : /\ Cardinality(NumbersInCol(card, c)) >= 1
                            /\ Cardinality(NumbersInCol(card, c)) <= 3)
    /\ [][gpc = "adjust" =>
            \A c \in Cols : Cardinality(NumbersInCol(card', c))
                            = Cardinality(NumbersInCol(card, c))]_vars

\* a returned grid, repaired by a move, with a column of one number and a
\* column of three
C5_Witness ==
    /\ gpc = "returned"
    /\ adj_attempt >= 1
    /\ \E c \in Cols : Cardinality(NumbersInCol(card, c)) = 1
    /\ \E c \in Cols : Cardinality(NumbersInCol(card, c)) = 3

\* C6: when generate_unique_card returns a card, every candidate the call
\* rejected had its fingerprint in the seen-set, the fingerprint of the card
\* was not in the seen-set when the call began, and the seen-set is the old
\* one plus that fingerprint.
C6_FirstUnseenCandidate ==
    \A g \in Gens :
        UniqueReturned(g) =>
            /\ \A i \in 1 .. Len(rejected[g]) :
                   _card_to_hash(rejected[g][i]) \in call_seen[g]
            /\ _card_to_hash(LastReturned(g)) \notin call_seen[g]
            /\ generated_cards[g] = call_seen[g] \cup {_card_to_hash(LastReturned(g))}

\* a call returned a card after rejecting a candidate
C6_Witness == UniqueReturned(1) /\ rejected[1] # << >>

\* C7: a call of generate_unique_card has failed exactly when it has rejected
\* UniqueMaxAttempts (10000) candidates, each with its fingerprint in the
\* seen-set; the failed call has returned no card and the seen-set is as it
\* was; a call that has rejected that many candidates can only fail.
C7_ExhaustionOnly ==
    /\ [](\A g \in Gens :
            (stack[g] = << >> /\ last[g].kind = "error") =>
                   /\ Len(rejected[g]) = UniqueMaxAttempts
                   /\ \A i \in 1 .. Len(rejected[g]) :
                          _card_to_hash(rejected[g][i]) \in call_seen[g]
                   /\ generated_cards[g] = call_seen[g]
                   /\ returned[g] = call_returned[g])
    /\ [][\A g \in Gens :
            (Top(g) = "unique" /\ Len(rejected[g]) = UniqueMaxAttempts) =>
                /\ last'[g].kind = "error"
                /\ returned'[g] = returned[g]
                /\ generated_cards'[g] = generated_cards[g]]_vars

\* a call failed on a generator that has returned cards
C7_Witness ==
    /\ stack[1] = << >>
    /\ last[1].kind = "error"
    /\ returned[1] # << >>

\* C8: _generate_single_card returns a grid only when the repair pass
\* returned True with PerRow numbers in every row; a candidate whose repair
\* returned False is dropped and counted, the next candidate starts from the
\* all-zero grid, and the call ends in the error only when all
\* SingleMaxAttempts (1000) candidates were dropped.
C8_ReturnsOnlyRepaired ==
    /\ [](gpc = "returned" =>
            /\ adj_ok
            /\ \A r \in Rows : Cardinality(NumbersInRow(card, r)) = PerRow)
    /\ [](gpc = "error" => attempt = SingleMaxAttempts)
    /\ [][(gpc = "adjust" /\ gpc' # "adjust") =>
            IF adj_ok' THEN gpc' = "returned" /\ attempt' = attempt
            ELSE gpc' = "loop" /\ attempt' = attempt + 1]_vars
    /\ [][gpc = "loop" =>
            IF attempt < SingleMaxAttempts
            THEN card' = ZeroCard /\ gpc' \in {"dist", "fill"}
            ELSE gpc' = "error"]_vars

\* the first candidate was returned once the repair pass reported success
C8_Witness ==
    /\ gpc = "returned"
    /\ adj_ok
    /\ attempt = 0
    /\ adj_attempt >= 1
    /\ dist_left = 0

C10_SeenSetGrows ==
    /\ \A g \in Gens : generated_cards[g] = {}
    /\ [][\A g \in Gens : generated_cards[g] \subseteq generated_cards'[g]]_vars

\* the seen-set holds two fingerprints after a call failed and a later call
\* was made
C10_Witness ==
    /\ Cardinality(generated_cards[1]) >= 2
    /\ last[1].kind = "error"
    /\ n_calls[1] >= 2

\* the last n cards generate_unique_card returned, in the order of return
LastCards(g, n) == SubSeq(returned[g], Len(returned[g]) - n + 1, Len(returned[g]))
\* generate_batch of instance g returns in this step
BatchReturns(g) == Top(g) = "batch" /\ Len(stack'[g]) < Len(stack[g])

\* C11: when generate_batch(n) returns, it has made exactly n
\* generate_unique_card calls and hands its caller exactly n cards, the cards
\* those calls returned, in that order; generate_batch(0) makes no call,
\* returns the empty list and leaves the seen-set, the rng, the returned
\* cards and the cache as they were.
C11_BatchReturnsNCards ==
    /\ [][\A g \in Gens :
            BatchReturns(g) =>
                /\ b_i[g] = b_num[g]
                /\ Len(b_cards[g]) = b_num[g]
                /\ Len(returned[g]) >= b_num[g]
                /\ b_cards[g] = LastCards(g, b_num[g])
                /\ IF Caller(g) = "prepare"
                   THEN p_all'[g] = p_all[g] \o b_cards[g]
                   ELSE last'[g] = CardsResult(b_cards[g])]_vars
    /\ [][\A g \in Gens :
            (Top(g) = "batch" /\ b_num[g] = 0) =>
                /\ BatchReturns(g)
                /\ b_cards[g] = << >>
                /\ UNCHANGED << generated_cards, rngVars, returned, cards_cache >>]_vars

\* a top-level generate_batch(2) has returned two cards, the second after a
\* rejected candidate
C11_Witness ==
    /\ stack[1] = << >>
    /\ last[1].kind = "cards"
    /\ Len(last[1].cards) = 2
    /\ b_num[1] = 2
    /\ p_batch_size[1] = 0
    /\ rejected[1] # << >>

\* no two positions of the list hold equal grids
PairwiseDistinct(cards) ==
    \A i, j \in 1 .. Len(cards) : i # j => cards[i] # cards[j]
\* the last call of instance g was validate_cards_unique and has returned
ValidateReturned(g) == stack[g] = << >> /\ last[g].kind \in {"True", "False"}

\* C12: validate_cards_unique returns True exactly when no two positions of
\* cards_cache hold equal grids, so True for the empty cache and for a list of
\* different cards; it returns False at the first card that equals an
\* earlier one.
C12_ValidateIffDistinct ==
    /\ [](\A g \in Gens :
            ValidateReturned(g) =>
                (last[g].kind = "True" <=> PairwiseDistinct(cards_cache[g])))
    /\ [][\A g \in Gens :
            (Top(g) = "validate" /\ last'[g].kind = "False") =>
                /\ PairwiseDistinct(SubSeq(cards_cache[g], 1, v_i[g]))
                /\ \E i \in 1 .. v_i[g] :
                       cards_cache[g][i] = cards_cache[g][v_i[g] + 1]]_vars

\* False was returned for a cache of three cards whose last card repeats the
\* first
C12_Witness ==
    /\ ValidateReturned(1)
    /\ last[1].kind = "False"
    /\ Len(cards_cache[1]) = 3
    /\ cards_cache[1][1] = cards_cache[1][3]
    /\ cards_cache[1][1] # cards_cache[1][2]

\* prepare_cards_for_event is in progress on instance g
InPrepare(g) == stack[g] # << >> /\ stack[g][1] = "prepare"
\* prepare_cards_for_event ends in this step, by return or by exception
PrepareEnds(g) == InPrepare(g) /\ stack'[g] = << >>
\* steps one generate_unique_card call takes at most, with the step calling it
CardWork == UniqueMaxAttempts + 2
\* steps a prepare_cards_for_event call in progress takes at most
PrepareWork(g) ==
    IF ~InPrepare(g) THEN 0
    ELSE IF Top(g) = "prepare" THEN p_remaining[g] * (CardWork + 2) + 1
    ELSE (p_remaining[g] - b_num[g]) * (CardWork + 2) + 2
         + (b_num[g] - b_i[g]) * CardWork
         + (IF Top(g) = "unique" THEN UniqueMaxAttempts - u_attempt[g] + 1 ELSE 0)

\* C13 as stated: every prepare_cards_for_event call with
\* total_cards_needed >= 0 and batch_size >= 1 ends by returning exactly
\* total_cards_needed cards.
C13_AlwaysReturnsTotal ==
    [][\A g \in Gens :
         PrepareEnds(g) =>
             /\ last'[g].kind = "cards"
             /\ Len(last'[g].cards) = p_total[g]]_vars

\* C13: for total_cards_needed >= 0 and batch_size >= 1,
\* prepare_cards_for_event terminates (every step of it lowers a bound on the
\* steps left); it ends either by returning exactly total_cards_needed
\* pairwise different cards, also across batches, with cards_cache set to
\* exactly that list, or by the RuntimeError of a generate_unique_card call
\* that used up its retries, with cards_cache as it was.
C13_PrepareReturnsTotalOrRaises ==
    /\ [](\A g \in Gens : PrepareWork(g) >= 0)
    /\ [][\A g \in Gens :
            (InPrepare(g) /\ << stack[g], p_remaining[g], b_i[g], u_attempt[g] >>
                             # << stack'[g], p_remaining'[g], b_i'[g], u_attempt'[g] >>)
                => PrepareWork(g)' < PrepareWork(g)]_vars
    /\ [][\A g \in Gens :
            InPrepare(g) =>
                << stack[g], p_remaining[g], b_i[g], u_attempt[g] >>
                    # << stack'[g], p_remaining'[g], b_i'[g], u_attempt'[g] >>]_vars
    /\ [][\A g \in Gens :
            PrepareEnds(g) =>
                IF last'[g].kind = "cards"
                THEN /\ Len(last'[g].cards) = p_total[g]
                     /\ PairwiseDistinct(last'[g].cards)
                     /\ cards_cache'[g] = last'[g].cards
                ELSE /\ last'[g].kind = "error"
                     /\ Len(rejected[g]) = UniqueMaxAttempts
                     /\ cards_cache'[g] = cards_cache[g]]_vars

\* the second call of a session, prepare_cards_for_event(2, 1), has returned
\* the two cards of its two batches after an earlier call returned one card,
\* and the cache is exactly that list
C13_Witness ==
    /\ stack[1] = << >>
    /\ n_calls[1] = 2
    /\ last[1].kind = "cards"
    /\ p_total[1] = 2
    /\ p_batch_size[1] = 1
    /\ Len(returned[1]) = 3
    /\ cards_cache[1] = last[1].cards
    /\ Len(cards_cache[1]) = 2

\* C14: with a cache of M cards, a get_card(index) call with index >= M ends
\* in the IndexError and one with 0 <= index < M returns the card at that
\* position, counted from 0; either way the cache is left as it was.
C14_GetCardInRange ==
    [][\A g \in Gens : \A index \in Indexes :
         get_card(g, index) =>
             /\ cards_cache'[g] = cards_cache[g]
             /\ index >= Len(cards_cache[g]) => last'[g].kind = "IndexError"
             /\ (0 <= index /\ index < Len(cards_cache[g])) =>
                    /\ last'[g].kind = "card"
                    /\ last'[g].card = cards_cache[g][index + 1]]_vars

\* get_card(1) has returned the second card of a prepared cache of two
C14_Witness ==
    /\ stack[1] = << >>
    /\ last[1].kind = "card"
    /\ Len(cards_cache[1]) = 2
    /\ Len(returned[1]) = 2
    /\ last[1].card = cards_cache[1][2]
    /\ last[1].card # cards_cache[1][1]

\* the grids a list holds
CardSet(cards) == { cards[i] : i \in 1 .. Len(cards) }
\* a step of a validate_cards_unique call of instance g: its entry or a step
\* of its loop
ValidateActs(g) ==
    \/ Top(g) = "validate"
    \/ stack'[g] # << >> /\ stack'[g][Len(stack'[g])] = "validate"

\* C15: no step of validate_cards_unique changes the generator's seen-set,
\* its rng or cards_cache, and what it returns is decided by the cached list
\* alone, True when the list holds as many different grids as it has
\* positions, whatever the seen-set holds.
C15_ValidateIndependent ==
    /\ [][\A g \in Gens :
            ValidateActs(g) =>
                /\ generated_cards'[g] = generated_cards[g]
                /\ cards_cache'[g] = cards_cache[g]
                /\ UNCHANGED rngVars]_vars
    /\ [](\A g \in Gens :
            ValidateReturned(g) =>
                last[g] = BoolResult(Cardinality(CardSet(cards_cache[g]))
                                     = Len(cards_cache[g])))

\* True was returned for a cache of different cards of which the seen-set
\* holds one fingerprint and lacks another
C15_Witness ==
    /\ ValidateReturned(1)
    /\ last[1].kind = "True"
    /\ \E i \in 1 .. Len(cards_cache[1]) :
          _card_to_hash(cards_cache[1][i]) \in generated_cards[1]
    /\ \E i \in 1 .. Len(cards_cache[1]) :
          _card_to_hash(cards_cache[1][i]) \notin generated_cards[1]

\* the sum of the counts of all columns
SumCounts(counts) ==
    LET S[n \in 0 .. NumCols] == IF n = 0 THEN 0 ELSE S[n - 1] + counts[n - 1]
    IN  S[NumCols]
\* counts with one more number in column c
Incremented(counts, c) == [counts EXCEPT ![c] = @ + 1]

\* C16: the counts _generate_column_distribution returns are NumCols (9)
\* integers in 1..3 of sum NumRows * PerRow (15), whatever was drawn; every
\* iteration of its loop adds one to exactly one column that held fewer than
\* 3, the picked column if that held fewer than 3 and else another column
\* holding fewer than 3; and at every iteration some column holds fewer than
\* 3, so no increment is dropped.
C16_ColumnDistribution ==
    /\ [](gpc \in {"fill", "adjust", "returned"} =>
            /\ \A c \in Cols : column_counts[c] >= 1 /\ column_counts[c] <= 3
            /\ SumCounts(column_counts) = TotalNumbers)
    /\ [](gpc = "dist" => \E c \in Cols : column_counts[c] < 3)
    /\ [][gpc = "dist" =>
            LET col == dist_col'
                targets == IF column_counts[col] < 3 THEN {col}
                           ELSE {c \in Cols : column_counts[c] < 3}
            IN  \E c \in targets :
                    column_counts' = Incremented(column_counts, c)]_vars

\* the distribution has returned with a column of one number and a column of
\* three, the full column being the one its last iteration picked
C16_Witness ==
    /\ gpc = "fill"
    /\ fill_col = 0
    /\ column_counts[dist_col] = 3
    /\ \E c \in Cols : column_counts[c] = 1

\* column c of the grid holds k numbers, different numbers of the range of
\* the column, ascending from the top row down
ColumnFilled(grid, c, k) ==
    /\ Cardinality(NumbersInCol(grid, c)) = k
    /\ \A r \in NumbersInCol(grid, c) :
           /\ grid[r][c] >= c * ColWidth + 1
           /\ grid[r][c] <= Min(c * ColWidth + ColWidth, MaxNumber)
    /\ \A r1, r2 \in NumbersInCol(grid, c) : r1 < r2 => grid[r1][c] < grid[r2][c]

\* C17: when the column fill is done and no repair pass has run, every
\* column c holds exactly column_counts[c] numbers, different numbers of the
\* column's range, ascending by row; while the fill runs this holds of the
\* columns filled so far and the other columns are blank.
C17_ColumnFill ==
    /\ (gpc = "adjust" /\ adj_attempt = 0) =>
           \A c \in Cols : ColumnFilled(card, c, column_counts[c])
    /\ gpc = "fill" =>
           \A c \in Cols :
               IF c < fill_col THEN ColumnFilled(card, c, column_counts[c])
               ELSE NumbersInCol(card, c) = {}

\* the fill is done with a column of two numbers in the first and the last
\* row, and rows that are not yet balanced
C17_Witness ==
    /\ gpc = "adjust"
    /\ adj_attempt = 0
    /\ ~AllFive(card)
    /\ \E c \in Cols : NumbersInCol(card, c) = {0, NumRows - 1}

\* the numbers column c of the grid holds
ColumnValues(grid, c) == { grid[r][c] : r \in NumbersInCol(grid, c) }
\* new is old with the number at (from, c) moved to the blank cell (to, c)
\* and nothing else changed
IsMove(old, new, from, to, c) ==
    /\ old[from][c] # 0
    /\ old[to][c] = 0
    /\ new[to][c] = old[from][c]
    /\ new[from][c] = 0
    /\ \A r \in Rows : \A d \in Cols :
           (d # c \/ r \notin {from, to}) => new[r][d] = old[r][d]

\* C18: a repair pass leaves the grid as it is or makes one move: one number
\* leaves a row holding more than PerRow (5) numbers for a blank cell of the
\* same column in a row holding fewer, every other cell staying as it is; so
\* every column keeps its set of numbers and the grid its count of numbers.
C18_OneMovePerPass ==
    [][gpc = "adjust" =>
         /\ \/ card' = card
            \/ \E from \in excess_rows(card) : \E to \in deficit_rows(card) :
                  \E c \in Cols : IsMove(card, card', from, to, c)
         /\ \A c \in Cols : ColumnValues(card', c) = ColumnValues(card, c)
         /\ Cardinality(Numbers(card')) = Cardinality(Numbers(card))
         /\ Cardinality(Numbers(card)) = TotalNumbers]_vars

\* two passes have each moved a number
C18_Witness ==
    /\ gpc = "adjust"
    /\ adj_attempt = 2

\* how far the rows of the grid are from PerRow numbers each
Imbalance(grid) ==
    LET off(r) == IF row_counts(grid)[r] > PerRow
                  THEN row_counts(grid)[r] - PerRow
                  ELSE PerRow - row_counts(grid)[r]
        S[n \in 0 .. NumRows] == IF n = 0 THEN 0 ELSE S[n - 1] + off(n - 1)
    IN  S[NumRows]

\* C19: from every grid the column fill produces and for every choice of
\* rows, each pass of the repair loop on an unbalanced grid moves a number and
\* brings the rows two closer to PerRow (5) each; the passes made and still
\* needed never exceed the count of numbers, which is below the bound of
\* RepairMaxAttempts (100) passes, so the loop returns True; the first
\* candidate of _generate_single_card is returned and its error is never
\* raised.
C19_RepairConverges ==
    /\ [](gpc = "adjust" =>
            /\ adj_attempt + Imbalance(card) \div 2 <= TotalNumbers
            /\ TotalNumbers < RepairMaxAttempts)
    /\ [][(gpc = "adjust" /\ ~AllFive(card)) =>
            /\ gpc' = "adjust"
            /\ adj_attempt' = adj_attempt + 1
            /\ Imbalance(card') = Imbalance(card) - 2]_vars
    /\ [][(gpc = "adjust" /\ AllFive(card)) =>
            /\ gpc' = "returned"
            /\ adj_ok'
            /\ card' = card]_vars
    /\ [](attempt = 0 /\ gpc # "error")

\* the first candidate was returned after the repair loop needed two passes
C19_Witness ==
    /\ gpc = "returned"
    /\ attempt = 0
    /\ adj_ok
    /\ adj_attempt = 2

\* the grids the column fill can produce for the counts, columns col and up
\* still to fill
RECURSIVE FillsFor(_, _, _)
FillsFor(counts, col, grids) ==
    IF col = NumCols THEN grids
    ELSE FillsFor(counts, col + 1,
             UNION { { FillColumn(grid, col, draw[1], draw[2]) :
                       draw \in SortedDraws(col, counts[col]) } : grid \in grids })
\* the grids at the head of a pass of the repair loop, over all its choices
RECURSIVE RepairHeads(_, _, _)
RepairHeads(pass, active, heads) ==
    IF active = {} \/ pass >= RepairMaxAttempts THEN heads
    ELSE RepairHeads(pass + 1,
             UNION { UNION { { AdjustMove(grid, e, d) : d \in deficit_rows(grid) } :
                             e \in excess_rows(grid) } :
                     grid \in { x \in active : ~AdjustStops(x) } },
             heads \cup active)
\* the repair loop can pick, at this grid, a pair of rows without a column
\* to move
WastedPass(grid) ==
    /\ ~AdjustStops(grid)
    /\ \E e \in excess_rows(grid) : \E d \in deficit_rows(grid) :
          MovableCols(grid, e, d) = {}

\* C20 as stated: a call of _generate_single_card can reach a grid at the
\* head of a repair pass and pick rows for which no column has a number in
\* the excess row and a blank in the deficit row.
C20_WastedPassReachable ==
    (gpc = "loop" /\ attempt = 0) =>
        \E counts \in DistOutcomes[ExtraNumbers] :
            \E grid \in RepairHeads(0, FillsFor(counts, 0, {ZeroCard}), {}) :
                WastedPass(grid)

\* C20: no pass of the repair loop is wasted: whenever a pass begins on a
\* grid with unbalanced rows there is a row to pick on either side, for every
\* pair the loop can pick some column has a number in the excess row and a
\* blank in the deficit row, and the pass changes the grid.
C20_NoWastedPass ==
    /\ []((gpc = "adjust" /\ ~AllFive(card)) =>
            /\ excess_rows(card) # {}
            /\ deficit_rows(card) # {}
            /\ \A e \in excess_rows(card) : \A d \in deficit_rows(card) :
                   MovableCols(card, e, d) # {})
    /\ [][(gpc = "adjust" /\ ~AllFive(card)) => card' # card]_vars

\* a pass begins on a grid whose excess row is full and whose deficit row
\* holds a number
C20_Witness ==
    /\ gpc = "adjust"
    /\ \E e \in excess_rows(card) : Cardinality(NumbersInRow(card, e)) = NumCols
    /\ \E d \in deficit_rows(card) : NumbersInRow(card, d) # {}

\* the numbers of column c of the grid ascend from the top row to the bottom
ColumnAscending(grid, c) ==
    \A r1, r2 \in NumbersInCol(grid, c) : r1 < r2 => grid[r1][c] < grid[r2][c]

\* C21: in every grid _generate_single_card returns, the numbers of each
\* column ascend from the top row to the bottom row: the order the column
\* fill established is still there after the repair passes.
C21_ColumnsAscending ==
    gpc = "returned" => \A c \in Cols : ColumnAscending(card, c)

\* get_stats of instance g: total_generated is len(self.generated_cards),
\* memory_usage_mb that length * 32 / (1024 * 1024), kept as a fraction
get_statsCountsBytes(g) ==
    [total_generated |-> Cardinality(generated_cards[g]) * 32,
     memory_usage_mb |-> << Cardinality(generated_cards[g]) * 32, 1024 * 1024 >>]
get_stats(g) ==
    [total_generated |-> Cardinality(generated_cards[g]),
     memory_usage_mb |-> << Cardinality(generated_cards[g]) * 32, 1024 * 1024 >>]

\* the fingerprints of the cards a list holds
Fingerprints(cards) == { _card_to_hash(cards[i]) : i \in 1 .. Len(cards) }

\* C22: in every state of a session with one caller, total_generated of
\* get_stats is the number of cards generate_unique_card has returned so far,
\* directly or to generate_batch, and the seen-set is exactly the set of the
\* fingerprints of those cards.
C22_SeenSetIsReturned ==
    \A g \in Gens :
        /\ get_stats(g).total_generated = Len(returned[g])
        /\ generated_cards[g] = Fingerprints(returned[g])

\* three cards were returned over two calls, the last after a rejected
\* candidate
C22_Witness ==
    /\ stack[1] = << >>
    /\ Len(returned[1]) = 3
    /\ rejected[1] # << >>
    /\ get_stats(1).total_generated = 3

\* the returns made to the threads: thread and position
ThreadReturns == { p \in Threads \X (1 .. MaxCalls) : p[2] <= Len(t_returned[p[1]]) }
\* two returns handed out the same card
SameCardTwice ==
    \E p, q \in ThreadReturns :
        p # q /\ t_returned[p[1]][p[2]] = t_returned[q[1]][q[2]]

\* C23: the membership test and the insert of generate_unique_card are two
\* steps: the step that passes the test leaves the seen-set as it is. When
\* the callers serialize their calls no card is returned twice and no thread
\* passes the test for a card another thread is about to insert; a card is
\* returned twice only after such a race, which callers that do not
\* serialize can run into (the witness).
C23_TestThenInsertRace ==
    /\ [][\A t \in Threads :
            (t_pc[t] = "test" /\ t_pc'[t] = "add") =>
                /\ generated_cards' = generated_cards
                /\ _card_to_hash(t_card[t]) \notin generated_cards'[1]]_vars
    /\ [](serialized => (~SameCardTwice /\ ~raced))
    /\ [](SameCardTwice => raced)

\* without serialization both threads passed the test for the same card
\* before either inserted it, and both returned it as their first card
C23_Witness ==
    /\ ~serialized
    /\ raced
    /\ t_returned[1] # << >>
    /\ t_returned[2] # << >>
    /\ t_returned[1][1] = t_returned[2][1]
    /\ Cardinality(generated_cards[1]) = 1

\* generate_batch or prepare_cards_for_event is the call in progress on g
InBatchCall(g) == stack[g] # << >> /\ stack[g][1] \in {"batch", "prepare"}
\* the cards that call has accepted so far
Accepted(g) ==
    IF stack[g][1] = "prepare" THEN p_all[g] \o b_cards[g] ELSE b_cards[g]
\* a generate_unique_card call made by it ends in this step without a card
Interrupted(g) ==
    /\ InBatchCall(g)
    /\ Top(g) = "unique"
    /\ Len(stack'[g]) < Len(stack[g])
    /\ returned'[g] = returned[g]

\* C24: when a generate_unique_card call inside generate_batch or
\* prepare_cards_for_event ends in an error after k cards were accepted, the
\* error reaches the top-level caller in place of any list of cards,
\* cards_cache is what it was when the call began (no step of the call before
\* the successful return of prepare_cards_for_event writes it), and the
\* seen-set is left as it is, holding the k different fingerprints of the
\* accepted cards.
C24_ErrorKeepsCacheAndSeenSet ==
    /\ [][\A g \in Gens :
            Interrupted(g) =>
                /\ stack'[g] = << >>
                /\ last'[g] = ErrorResult
                /\ last'[g].cards = << >>
                /\ cards_cache'[g] = cards_cache[g]
                /\ generated_cards'[g] = generated_cards[g]
                /\ Accepted(g) = LastCards(g, Len(Accepted(g)))
                /\ Fingerprints(Accepted(g)) \subseteq generated_cards'[g]
                /\ Cardinality(Fingerprints(Accepted(g))) = Len(Accepted(g))]_vars
    /\ [][\A g \in Gens :
            (InBatchCall(g) /\ cards_cache'[g] # cards_cache[g]) =>
                /\ stack[g] = << "prepare" >>
                /\ stack'[g] = << >>
                /\ last'[g].kind = "cards"]_vars

\* the second prepare_cards_for_event(2, 1) of a session failed after its
\* first batch accepted a card: the cache still holds the card of the first
\* call and the seen-set both fingerprints
C24_Witness ==
    /\ stack[1] = << >>
    /\ last[1].kind = "error"
    /\ n_calls[1] = 2
    /\ p_total[1] = 2
    /\ p_batch_size[1] = 1
    /\ Len(p_all[1]) = 1
    /\ Len(cards_cache[1]) = 1
    /\ cards_cache[1] # p_all[1]
    /\ generated_cards[1] = Fingerprints(cards_cache[1] \o p_all[1])

\* an iteration of the while loop of prepare_cards_for_event ends in this
\* step: its generate_batch call returns and remaining is updated
IterationEnds(g) ==
    /\ InPrepare(g)
    /\ Top(g) = "batch"
    /\ stack'[g] = << "prepare" >>

\* C25: for every total_cards_needed > 0 and every integer batch_size, also
\* batch_size <= 0, each iteration of the while loop of
\* prepare_cards_for_event leaves remaining smaller than it found it and not
\* below 0, so the loop ends.
C25_RemainingDecreases ==
    [][\A g \in Gens :
         IterationEnds(g) =>
             /\ p_remaining'[g] < p_remaining[g]
             /\ p_remaining'[g] >= 0]_vars

\* every cell of the card_number-th card is on the canvas with its value
AllCellsDrawn(card_number) ==
    \A r \in Rows : \A c \in Cols :
        Drawn(card_number, r, c, cards_cache[1][card_number][r][c]) \in canvas
\* the numbers of the card_number-th card that are on the canvas
NumbersDrawn(card_number) ==
    { d.text : d \in { x \in canvas : x.card_number = card_number /\ x.text # 0 } }

\* C26: for every card _draw_single_card has drawn, each of its cells, in
\* all the columns of all the rows, is on the sheet with its value, so all
\* NumRows * PerRow (15) numbers of the card appear; and no step of the
\* renderer changes the cards.
C26_RendererDrawsWholeGrid ==
    /\ [](\A k \in 1 .. Len(cards_cache[1]) :
            (r_pc \in {"cards", "done"} /\ k <= card_index) =>
                /\ AllCellsDrawn(k)
                /\ Cardinality(NumbersDrawn(k)) = TotalNumbers)
    /\ [][cards_cache' = cards_cache]_vars

====
